---- MODULE Spec2Model ----
(***************************************************************************)
(* Model of github.com/zachvictor/sqlinsert: the package-level Tokenize    *)
(* (src/pkg/token.go), the statement builder Insert.Columns / Params /     *)
(* SQL / Args (src/pkg/insert.go) and the two package variables            *)
(* UseTokenType and UseStructTag.                                          *)
(*                                                                         *)
(* Go strings are TLA+ strings; a character is a string of length one.     *)
(* reflect.Value is a record with a kind ("Struct", "Pointer", "Slice").   *)
(* A call that panics returns Panic(..) in place of a value.               *)
(*                                                                         *)
(* Spec is a caller of the builders; SpecExec a caller of Insert and       *)
(* InsertContext on an executor; SpecUse a caller of both; SpecRace a      *)
(* Params() or SQL() call beside a thread that assigns a package variable. *)
(***************************************************************************)
EXTENDS Integers, Sequences, FiniteSets, TLC

VARIABLES
    UseTokenType,   \* package variable, src/pkg/token.go:43
    UseStructTag,   \* package variable, src/pkg/token.go:10
    ins,            \* the Insert under use: [Table, Data]
    ret,            \* the last call made and what it returned
    configured,     \* whether the caller has assigned a package variable yet
    run,            \* the Insert / InsertContext call in flight, or the last
                    \* one made, with the calls it made on its executor
    build,          \* a Params() / SQL() call running beside another thread
    writer          \* that other thread, which assigns a package variable

vars == <<UseTokenType, UseStructTag, ins, ret, configured, run, build, writer>>

(***************************************************************************)
(* Bounds of the model.                                                    *)
(***************************************************************************)
\* Longest batch (slice) handed to an Insert.
MaxRecs == 3
\* TokenType is an int: values 0..MaxTokenTypeValue are tried, the last ones
\* lying outside the five enumerated constants.
MaxTokenTypeValue == 5

(***************************************************************************)
(* TokenType constants, src/pkg/token.go:21-39.                            *)
(***************************************************************************)
ColumnNameTokenType == 0
QuestionMarkTokenType == 1
AtColumnNameTokenType == 2
OrdinalNumberTokenType == 3
ColonTokenType == 4

TokenTypes == 0..MaxTokenTypeValue

\* The struct tag keys tried for UseStructTag: the default and one custom key.
StructTags == {"col", "db"}

(***************************************************************************)
(* Record shapes (reflect.Type of a struct) and record values.             *)
(* A struct field has a Go name and a tag: a sequence of <<key, value>>.   *)
(***************************************************************************)
StructField(name, tag) == [Name |-> name, Tag |-> tag]
ColTag(c) == << <<"col", c>> >>

\* The test fixture's record type.
candyInsert ==
    [Name   |-> "candyInsert",
     Fields |-> << StructField("Id", ColTag("id")),
                   StructField("Name", ColTag("candy_name")),
                   StructField("FormFactor", ColTag("form_factor")),
                   StructField("Description", ColTag("description")),
                   StructField("Mfr", ColTag("manufacturer")),
                   StructField("Weight", ColTag("weight_grams")),
                   StructField("Timestamp", ColTag("ts")) >>]

\* A two-field record: struct { Id string `col:"id"`; Weight float64 `col:"weight"` }.
pairInsert ==
    [Name   |-> "pairInsert",
     Fields |-> << StructField("Id", ColTag("id")),
                   StructField("Weight", ColTag("weight")) >>]

\* A record whose fields carry both keys, no tag at all, or only the custom key.
mixedInsert ==
    [Name   |-> "mixedInsert",
     Fields |-> << StructField("A", << <<"col", "a">>, <<"db", "a_db">> >>),
                   StructField("B", << >>),
                   StructField("C", << <<"db", "c_db">> >>) >>]

\* struct{}: no fields.
emptyInsert == [Name |-> "emptyInsert", Fields |-> << >>]

\* A record of one field.
singleInsert == [Name |-> "singleInsert", Fields |-> << StructField("Id", ColTag("id")) >>]

\* Eleven fields, so that ordinal tokens reach two digits.
wideInsert ==
    [Name   |-> "wideInsert",
     Fields |-> << StructField("F1", ColTag("c1")), StructField("F2", ColTag("c2")),
                   StructField("F3", ColTag("c3")), StructField("F4", ColTag("c4")),
                   StructField("F5", ColTag("c5")), StructField("F6", ColTag("c6")),
                   StructField("F7", ColTag("c7")), StructField("F8", ColTag("c8")),
                   StructField("F9", ColTag("c9")), StructField("F10", ColTag("c10")),
                   StructField("F11", ColTag("c11")) >>]

RecordTypes == {candyInsert, pairInsert, mixedInsert, emptyInsert, singleInsert, wideInsert}

\* A field value is opaque to the builder: its Go type and its literal.
GoValue(type, lit) == [type |-> type, lit |-> lit]
GoString(s) == GoValue("string", s)
GoFloat(s) == GoValue("float64", s)
GoTime(s) == GoValue("time.Time", s)
\* The zero interface{} that make([]interface{}, n) fills a slice with.
GoNil == GoValue("nil", "")

recValue ==
    << GoString("c0600afd-78a7-4a1a-87c5-1bc48cafd14e"), GoString("Gougat"),
       GoString("Package"), GoString("tastes like gopher feed"), GoString("Gouggle"),
       GoFloat("1.1618"), GoTime("time.Time{}") >>
recB ==
    << GoString("b"), GoString("b"), GoString("b"), GoString("b"), GoString("b"),
       GoFloat("2.1"), GoTime("time.Time{}") >>

\* The field values tried for each record type.
RecordsOf(recordType) ==
    CASE recordType = candyInsert -> {recValue, recB}
      [] recordType = pairInsert  -> { <<GoString("x"), GoFloat("1.5")>>,
                                       <<GoString("y"), GoFloat("2.5")>> }
      [] recordType = mixedInsert -> { <<GoString("p"), GoString("q"), GoString("r")>>,
                                       <<GoString("s"), GoString("q"), GoString("u")>> }
      [] recordType = emptyInsert -> { << >> }
      [] recordType = singleInsert -> { << GoString("z") >> }
      [] recordType = wideInsert  -> { << GoString("f1"), GoString("f2"), GoString("f3"),
                                          GoString("f4"), GoString("f5"), GoString("f6"),
                                          GoString("f7"), GoString("f8"), GoString("f9"),
                                          GoString("f10"), GoString("f11") >> }

(***************************************************************************)
(* reflect.Value: a struct, a pointer to a struct, a slice of either. A    *)
(* slice keeps its element type (recordType, or a pointer to it when       *)
(* byPointer), which an empty slice has as well.                           *)
(***************************************************************************)
StructValue(recordType, fields) == [kind |-> "Struct", type |-> recordType, fields |-> fields]
PointerTo(v) == [kind |-> "Pointer", elem |-> v]
SliceOf(recordType, byPointer, elems) ==
    [kind |-> "Slice", of |-> recordType, ptr |-> byPointer, elems |-> elems]

Structs == UNION { { StructValue(t, r) : r \in RecordsOf(t) } : t \in RecordTypes }
StructsOfType(t) == { StructValue(t, r) : r \in RecordsOf(t) }

SeqsUpTo(S, n) == UNION { [1..m -> S] : m \in 0..n }

\* Everything Insert.Data is set to: a record or a batch ([]T or []*T, all
\* elements of one type as Go's typing has it), by value or by pointer.
DataValues ==
    Structs
    \cup { PointerTo(s) : s \in Structs }
    \cup UNION { { SliceOf(t, FALSE, q) :
                     q \in SeqsUpTo(StructsOfType(t), MaxRecs) } : t \in RecordTypes }
    \cup UNION { { SliceOf(t, TRUE, [i \in DOMAIN q |-> PointerTo(q[i])]) :
                     q \in SeqsUpTo(StructsOfType(t), MaxRecs) } : t \in RecordTypes }

\* Table names: the fixture's, a short one, and one that an escaping or
\* re-formatting step would change.
Tables == {"candy", "t", "o'neil %s"}

(***************************************************************************)
(* A call's outcome: a value, or a runtime panic.                          *)
(***************************************************************************)
Ok(v) == [panicked |-> FALSE, val |-> v]
Panic(msg) == [panicked |-> TRUE, val |-> msg]

(***************************************************************************)
(* fmt and reflect, as far as the package uses them.                       *)
(***************************************************************************)
Digits == "0123456789"

\* The decimal rendering of an int, as the verb %d prints it.
RECURSIVE Itoa(_)
Itoa(n) ==
    IF n < 0 THEN "-" \o Itoa(0 - n)
    ELSE IF n < 10 THEN SubSeq(Digits, n + 1, n + 1)
    ELSE Itoa(n \div 10) \o SubSeq(Digits, (n % 10) + 1, (n % 10) + 1)

\* fmt.Fprintf's formatting for the verbs the package uses: %s takes the next
\* argument as a string, %d the next argument as a decimal int; every other
\* character of the format is copied.
RECURSIVE Sprintf(_, _)
Sprintf(format, a) ==
    IF format = "" THEN ""
    ELSE IF Head(format) = "%" /\ Len(format) >= 2
    THEN LET verb == SubSeq(format, 2, 2)
             rest == SubSeq(format, 3, Len(format))
         IN  (IF verb = "d" THEN Itoa(Head(a)) ELSE Head(a)) \o Sprintf(rest, Tail(a))
    ELSE Head(format) \o Sprintf(Tail(format), a)

\* Mutant of TagGet: the value of the first pair, whatever its key.
TagGetAnyKey(tag, key) == IF tag = << >> THEN "" ELSE Head(tag)[2]

\* reflect.StructTag.Get: the value of the first pair with the key, or "".
RECURSIVE TagGet(_, _)
TagGet(tag, key) ==
    IF tag = << >> THEN ""
    ELSE IF Head(tag)[1] = key THEN Head(tag)[2]
    ELSE TagGet(Tail(tag), key)

NumField(recordType) == Len(recordType.Fields)
\* recordType.Field(i), i counted from 0 as in Go.
FieldAt(recordType, i) == recordType.Fields[i + 1]

(***************************************************************************)
(* Tokenize, src/pkg/token.go:47-69.                                       *)
(***************************************************************************)
\* Mutant of TokenFor: the ordinal token is numbered from the loop index i.
TokenForZeroBased(recordType, tokenType, i) ==
    CASE tokenType = ColumnNameTokenType ->
             TagGet(FieldAt(recordType, i).Tag, UseStructTag)
      [] tokenType = QuestionMarkTokenType -> "?"
      [] tokenType = AtColumnNameTokenType ->
             Sprintf("@%s", << TagGet(FieldAt(recordType, i).Tag, UseStructTag) >>)
      [] tokenType = OrdinalNumberTokenType -> Sprintf("$%d", << i >>)
      [] tokenType = ColonTokenType ->
             Sprintf(":%s", << TagGet(FieldAt(recordType, i).Tag, UseStructTag) >>)
      [] OTHER -> ""

\* Mutant of TokenFor: the colon case writes the at-sign format.
TokenForColonAsAt(recordType, tokenType, i) ==
    CASE tokenType = ColumnNameTokenType ->
             TagGet(FieldAt(recordType, i).Tag, UseStructTag)
      [] tokenType = QuestionMarkTokenType -> "?"
      [] tokenType = AtColumnNameTokenType ->
             Sprintf("@%s", << TagGet(FieldAt(recordType, i).Tag, UseStructTag) >>)
      [] tokenType = OrdinalNumberTokenType -> Sprintf("$%d", << i + 1 >>)
      [] tokenType = ColonTokenType ->
             Sprintf("@%s", << TagGet(FieldAt(recordType, i).Tag, UseStructTag) >>)
      [] OTHER -> ""

\* Mutant of TokenFor: a token type the switch does not list is rendered as
\* the default, the question mark.
TokenForDefaultCase(recordType, tokenType, i) ==
    CASE tokenType = ColumnNameTokenType ->
             TagGet(FieldAt(recordType, i).Tag, UseStructTag)
      [] tokenType = AtColumnNameTokenType ->
             Sprintf("@%s", << TagGet(FieldAt(recordType, i).Tag, UseStructTag) >>)
      [] tokenType = OrdinalNumberTokenType -> Sprintf("$%d", << i + 1 >>)
      [] tokenType = ColonTokenType ->
             Sprintf(":%s", << TagGet(FieldAt(recordType, i).Tag, UseStructTag) >>)
      [] OTHER -> "?"

\* Mutant of TokenFor: the annotation key is the one the package started
\* with.
TokenForColKey(recordType, tokenType, i) ==
    CASE tokenType = ColumnNameTokenType ->
             TagGet(FieldAt(recordType, i).Tag, "col")
      [] tokenType = QuestionMarkTokenType -> "?"
      [] tokenType = AtColumnNameTokenType ->
             Sprintf("@%s", << TagGet(FieldAt(recordType, i).Tag, "col") >>)
      [] tokenType = OrdinalNumberTokenType -> Sprintf("$%d", << i + 1 >>)
      [] tokenType = ColonTokenType ->
             Sprintf(":%s", << TagGet(FieldAt(recordType, i).Tag, "col") >>)
      [] OTHER -> ""

\* The text one iteration of the loop writes for field i (the switch).
TokenFor(recordType, tokenType, i) ==
    CASE tokenType = ColumnNameTokenType ->
             TagGet(FieldAt(recordType, i).Tag, UseStructTag)
      [] tokenType = QuestionMarkTokenType -> "?"
      [] tokenType = AtColumnNameTokenType ->
             Sprintf("@%s", << TagGet(FieldAt(recordType, i).Tag, UseStructTag) >>)
      [] tokenType = OrdinalNumberTokenType -> Sprintf("$%d", << i + 1 >>)
      [] tokenType = ColonTokenType ->
             Sprintf(":%s", << TagGet(FieldAt(recordType, i).Tag, UseStructTag) >>)
      [] OTHER -> ""

\* Mutant of Separator: a comma and a space, as the older Tokenize wrote.
SeparatorWithSpace(recordType, i) ==
    IF i < NumField(recordType) - 1 THEN ", " ELSE ""

\* The separator written after field i.
Separator(recordType, i) ==
    IF i < NumField(recordType) - 1 THEN "," ELSE ""

\* The for loop: b is the strings.Builder's content on entry to iteration i.
RECURSIVE TokenizeLoop(_, _, _, _)
TokenizeLoop(recordType, tokenType, i, b) ==
    IF ~(i < NumField(recordType)) THEN b
    ELSE TokenizeLoop(recordType, tokenType, i + 1,
                      b \o TokenFor(recordType, tokenType, i) \o Separator(recordType, i))

\* Mutant of Tokenize: the enclosing parentheses are not written.
TokenizeNoParens(recordType, tokenType) ==
    TokenizeLoop(recordType, tokenType, 0, "")

Tokenize(recordType, tokenType) ==
    TokenizeLoop(recordType, tokenType, 0, "(") \o ")"

(***************************************************************************)
(* Insert.Columns / Params / SQL / Args, src/pkg/insert.go:42-137.         *)
(* The receiver is passed as i: [Table, Data].                             *)
(***************************************************************************)
Kind(v) == v.kind
\* v.Len() of a slice.
SliceLen(v) == Len(v.elems)
\* v.Index(k) of a slice, k counted from 0; the callers check the range.
Index(v, k) == v.elems[k + 1]
\* v.Elem() of a pointer.
Elem(v) == v.elem
\* v.Type() of a struct value.
TypeOf(v) == v.type

\* Mutant of IndexPanic: Index(0) of an empty slice gives a zero value.
IndexZeroValue == Ok("")

IndexPanic == Panic("reflect: slice index out of range")

\* The record type the builder reads the fields from: Data's own type, the
\* pointed-to type, or the type of the first element of a slice (itself a
\* struct or a pointer). v.Index(0) panics on an empty slice.
Columns(i) ==
    LET v == i.Data IN
    IF Kind(v) = "Slice"
    THEN IF SliceLen(v) = 0 THEN IndexPanic
         ELSE IF Kind(Index(v, 0)) = "Pointer"
         THEN Ok(Tokenize(TypeOf(Elem(Index(v, 0))), ColumnNameTokenType))
         ELSE Ok(Tokenize(TypeOf(Index(v, 0)), ColumnNameTokenType))
    ELSE IF Kind(v) = "Pointer"
    THEN Ok(Tokenize(TypeOf(Elem(v)), ColumnNameTokenType))
    ELSE Ok(Tokenize(TypeOf(v), ColumnNameTokenType))

\* Mutant of ParamsLoop: the comma between two groups is left out.
RECURSIVE ParamsLoopNoComma(_, _, _, _)
ParamsLoopNoComma(paramRow, n, k, b) ==
    IF ~(k < n) THEN b
    ELSE ParamsLoopNoComma(paramRow, n, k + 1, b \o paramRow)

\* Mutant of ParamsLoop: the loop starts at 0, writing one group too many.
RECURSIVE ParamsLoopFromZero(_, _, _, _)
ParamsLoopFromZero(paramRow, n, k, b) ==
    IF ~(k - 1 < n) THEN b
    ELSE ParamsLoopFromZero(paramRow, n, k + 1, b \o "," \o paramRow)

\* Mutant of ParamsLoop: the body runs once before the test, as in a
\* do-while loop.
RECURSIVE ParamsLoopDoWhile(_, _, _, _)
ParamsLoopDoWhile(paramRow, n, k, b) ==
    IF ~(k + 1 < n) THEN b \o "," \o paramRow
    ELSE ParamsLoopDoWhile(paramRow, n, k + 1, b \o "," \o paramRow)

\* The loop of Params: b is the builder's content on entry to iteration k,
\* for k := 1; k < n; k++.
RECURSIVE ParamsLoop(_, _, _, _)
ParamsLoop(paramRow, n, k, b) ==
    IF ~(k < n) THEN b
    ELSE ParamsLoop(paramRow, n, k + 1, b \o "," \o paramRow)

\* Mutant of Params: under the ordinal kind the numbering of a batch runs on
\* from one row group to the next.
ParamsRunningOrdinal(i) ==
    LET v == i.Data IN
    IF Kind(v) = "Slice" /\ SliceLen(v) > 0 /\ UseTokenType = OrdinalNumberTokenType
    THEN LET recType == IF Kind(Index(v, 0)) = "Pointer"
                        THEN TypeOf(Elem(Index(v, 0))) ELSE TypeOf(Index(v, 0))
             k == NumField(recType)
             Row[r \in 0..(SliceLen(v) - 1)] ==
                 LET Tok[f \in 0..k] ==
                         IF f = 0 THEN ""
                         ELSE Tok[f - 1] \o (IF f > 1 THEN "," ELSE "")
                                  \o Sprintf("$%d", << r * k + f >>)
                     row == "(" \o Tok[k] \o ")"
                 IN  IF r = 0 THEN row ELSE Row[r - 1] \o "," \o row
         IN  Ok(Row[SliceLen(v) - 1])
    ELSE IF Kind(v) = "Slice"
    THEN IF SliceLen(v) = 0 THEN IndexPanic
         ELSE LET paramRow ==
                      IF Kind(Index(v, 0)) = "Pointer"
                      THEN Tokenize(TypeOf(Elem(Index(v, 0))), UseTokenType)
                      ELSE Tokenize(TypeOf(Index(v, 0)), UseTokenType)
              IN  Ok(ParamsLoop(paramRow, SliceLen(v), 1, paramRow))
    ELSE IF Kind(v) = "Pointer"
    THEN Ok(Tokenize(TypeOf(Elem(v)), UseTokenType))
    ELSE Ok(Tokenize(TypeOf(v), UseTokenType))

\* Mutant of Params: the token type is the one the package started with.
ParamsDefaultTokenType(i) ==
    LET v == i.Data IN
    IF Kind(v) = "Slice"
    THEN IF SliceLen(v) = 0 THEN IndexPanic
         ELSE LET paramRow ==
                      IF Kind(Index(v, 0)) = "Pointer"
                      THEN Tokenize(TypeOf(Elem(Index(v, 0))), QuestionMarkTokenType)
                      ELSE Tokenize(TypeOf(Index(v, 0)), QuestionMarkTokenType)
              IN  Ok(ParamsLoop(paramRow, SliceLen(v), 1, paramRow))
    ELSE IF Kind(v) = "Pointer"
    THEN Ok(Tokenize(TypeOf(Elem(v)), QuestionMarkTokenType))
    ELSE Ok(Tokenize(TypeOf(v), QuestionMarkTokenType))

Params(i) ==
    LET v == i.Data IN
    IF Kind(v) = "Slice"
    THEN IF SliceLen(v) = 0 THEN IndexPanic
         ELSE LET paramRow ==
                      IF Kind(Index(v, 0)) = "Pointer"
                      THEN Tokenize(TypeOf(Elem(Index(v, 0))), UseTokenType)
                      ELSE Tokenize(TypeOf(Index(v, 0)), UseTokenType)
              IN  Ok(ParamsLoop(paramRow, SliceLen(v), 1, paramRow))
    ELSE IF Kind(v) = "Pointer"
    THEN Ok(Tokenize(TypeOf(Elem(v)), UseTokenType))
    ELSE Ok(Tokenize(TypeOf(v), UseTokenType))

\* Mutant of InsertFormat: the parentheses of the older format kept in it.
InsertFormatParens == "INSERT INTO %s (%s) VALUES (%s)"

\* The format string of Insert.SQL.
InsertFormat == "INSERT INTO %s %s VALUES %s"

\* Go evaluates the arguments left to right: Columns() first, then Params();
\* a panic in either leaves SQL without a result.
SQL(i) ==
    LET c == Columns(i) IN
    IF c.panicked THEN c
    ELSE LET p == Params(i) IN
         IF p.panicked THEN p
         ELSE Ok(Sprintf(InsertFormat, << i.Table, c.val, p.val >>))

\* Mutant of MakeArgs: the slice is never made empty.
MakeArgsMinOne(n) == [x \in 1..(IF n < 1 THEN 1 ELSE n) |-> GoNil]

\* make([]interface{}, n)
MakeArgs(n) == [k \in 1..n |-> GoNil]

\* Mutant of ArgsFieldLoop: the slot is the field's index, so every row
\* lands on the first row's slots.
RECURSIVE ArgsFieldLoopPerRow(_, _, _, _)
ArgsFieldLoopPerRow(rec, numFieldsPerRec, fieldIndex, st) ==
    IF ~(fieldIndex < numFieldsPerRec) THEN st
    ELSE ArgsFieldLoopPerRow(rec, numFieldsPerRec, fieldIndex + 1,
             [argIndex |-> fieldIndex,
              args     |-> [st.args EXCEPT ![fieldIndex + 1] = rec.fields[fieldIndex + 1]]])

\* The inner loop of Args over the fields of rec; st is [argIndex, args].
RECURSIVE ArgsFieldLoop(_, _, _, _)
ArgsFieldLoop(rec, numFieldsPerRec, fieldIndex, st) ==
    IF ~(fieldIndex < numFieldsPerRec) THEN st
    ELSE LET argIndex == st.argIndex + 1
         IN  ArgsFieldLoop(rec, numFieldsPerRec, fieldIndex + 1,
                 [argIndex |-> argIndex,
                  args     |-> [st.args EXCEPT ![argIndex + 1] = rec.fields[fieldIndex + 1]]])

\* Mutant of ArgsRowLoop: a row behind a pointer is read through the first
\* element's pointer.
RECURSIVE ArgsRowLoopFirstElem(_, _, _, _)
ArgsRowLoopFirstElem(data, numFieldsPerRec, rowIndex, st) ==
    IF ~(rowIndex < SliceLen(data)) THEN st
    ELSE LET rec == IF Kind(Index(data, 0)) = "Pointer"
                    THEN Elem(Index(data, 0))
                    ELSE Index(data, rowIndex)
         IN  ArgsRowLoopFirstElem(data, numFieldsPerRec, rowIndex + 1,
                                  ArgsFieldLoop(rec, numFieldsPerRec, 0, st))

\* The outer loop of Args over the rows of the slice.
RECURSIVE ArgsRowLoop(_, _, _, _)
ArgsRowLoop(data, numFieldsPerRec, rowIndex, st) ==
    IF ~(rowIndex < SliceLen(data)) THEN st
    ELSE LET rec == IF Kind(Index(data, 0)) = "Pointer"
                    THEN Elem(Index(data, rowIndex))
                    ELSE Index(data, rowIndex)
         IN  ArgsRowLoop(data, numFieldsPerRec, rowIndex + 1,
                         ArgsFieldLoop(rec, numFieldsPerRec, 0, st))

Args(i) ==
    LET data == i.Data IN
    IF Kind(data) = "Slice"
    THEN IF SliceLen(data) = 0 THEN IndexPanic
         ELSE LET recType == IF Kind(Index(data, 0)) = "Pointer"
                             THEN TypeOf(Elem(Index(data, 0)))
                             ELSE TypeOf(Index(data, 0))
                  numRecs == SliceLen(data)
                  numFieldsPerRec == NumField(recType)
                  numBindArgs == numRecs * numFieldsPerRec
              IN  Ok(ArgsRowLoop(data, numFieldsPerRec, 0,
                         [argIndex |-> -1, args |-> MakeArgs(numBindArgs)]).args)
    ELSE LET rec == IF Kind(data) = "Pointer" THEN Elem(data) ELSE data
             recType == TypeOf(rec)
         IN  Ok(ArgsFieldLoop(rec, NumField(recType), 0,
                    [argIndex |-> -1, args |-> MakeArgs(NumField(recType))]).args)

(***************************************************************************)
(* The older builder of src/sqlinsert.go: NewInsert(Table, Record) keeps   *)
(* reflect.TypeOf(Record) as RowType, and Tokenize is a method that writes *)
(* no parentheses and separates the tokens by a comma and a space. The     *)
(* receiver is passed as i: [Table, Data], Data standing for Record.       *)
(***************************************************************************)
\* reflect.TypeOf(Record).String(): the package and the type's name, behind
\* "*" for a pointer and "[]" for a slice.
RowTypeString(v) ==
    LET Named(recordType) == "sqlinsert." \o recordType.Name
    IN  CASE Kind(v) = "Struct"  -> Named(TypeOf(v))
          [] Kind(v) = "Pointer" -> "*" \o Named(TypeOf(Elem(v)))
          [] Kind(v) = "Slice"   -> "[]" \o (IF v.ptr THEN "*" ELSE "") \o Named(v.of)

\* The panic of RowType.NumField() for a RowType that is no struct: reflect
\* appends the type to its message.
NumFieldPanic(v) == Panic("reflect: NumField of non-struct type " \o RowTypeString(v))

\* The for loop of the method Tokenize, src/sqlinsert.go:85-101.
RECURSIVE LegacyTokenizeLoop(_, _, _, _)
LegacyTokenizeLoop(rowType, tokenType, i, b) ==
    IF ~(i < NumField(rowType)) THEN b
    ELSE LegacyTokenizeLoop(rowType, tokenType, i + 1,
             b \o TokenFor(rowType, tokenType, i)
               \o (IF i < NumField(rowType) - 1 THEN ", " ELSE ""))

\* RowType.NumField() panics unless Record is a struct passed by value.
LegacyTokenize(i, tokenType) ==
    IF Kind(i.Data) # "Struct" THEN NumFieldPanic(i.Data)
    ELSE Ok(LegacyTokenizeLoop(TypeOf(i.Data), tokenType, 0, ""))

LegacyColumns(i) == LegacyTokenize(i, ColumnNameTokenType)
LegacyParams(i) == LegacyTokenize(i, UseTokenType)

LegacyInsertFormat == "INSERT INTO %s (%s) VALUES (%s)"

LegacySQL(i) ==
    LET c == LegacyColumns(i) IN
    IF c.panicked THEN c
    ELSE LET p == LegacyParams(i) IN
         IF p.panicked THEN p
         ELSE Ok(Sprintf(LegacyInsertFormat, << i.Table, c.val, p.val >>))

LegacyArgs(i) ==
    IF Kind(i.Data) # "Struct" THEN NumFieldPanic(i.Data)
    ELSE Ok([f \in 1..NumField(TypeOf(i.Data)) |-> i.Data.fields[f]])

(***************************************************************************)
(* The state machine: a caller assigns the package variables and calls     *)
(* the builder's functions on the Insert it built. ret is the caller's     *)
(* last operation: an assignment, or a call and its outcome. A call's      *)
(* outcome is therefore always seen with the package variables it read.    *)
(***************************************************************************)
NoCall == [op |-> "none"]
Assigned == [op |-> "assign"]
Returned(op, out) == [op |-> op, out |-> out]
\* No Insert / InsertContext call was the caller's last operation.
\* No Params() / SQL() call is running beside another thread.
NoBuild ==
    [pc |-> "idle", op |-> "none", tokenType |-> 0, i |-> 0, b |-> "",
     columns |-> "", kinds |-> {}, keys |-> {}]
\* The other thread has not assigned anything yet.
NoWriter == [pc |-> "ready", val |-> ""]
NilStmt == "nil"
NilErr == "nil"
NoContext == "none"
NoRun ==
    [pc |-> "idle", fn |-> "none", ctx |-> NoContext, stmt |-> NilStmt,
     out |-> Ok([stmt |-> NilStmt, err |-> NilErr]), events |-> <<>>]

\* Mutant of Init: the package starts with the ordinal token type.
InitOrdinalDefault ==
    /\ UseTokenType = OrdinalNumberTokenType
    /\ UseStructTag = "col"
    /\ ins \in [Table : Tables, Data : DataValues]
    /\ ret = NoCall
    /\ configured = FALSE
    /\ run = NoRun
    /\ build = NoBuild
    /\ writer = NoWriter

Init ==
    /\ UseTokenType = QuestionMarkTokenType
    /\ UseStructTag = "col"
    /\ ins \in [Table : Tables, Data : DataValues]
    /\ ret = NoCall
    /\ configured = FALSE
    /\ run = NoRun
    /\ build = NoBuild
    /\ writer = NoWriter

\* UseTokenType = tokenType
SetUseTokenType(tokenType) ==
    /\ UseTokenType' = tokenType
    /\ ret' = Assigned
    /\ configured' = TRUE
    /\ run' = NoRun
    /\ UNCHANGED <<UseStructTag, ins, build, writer>>

\* UseStructTag = tag
SetUseStructTag(tag) ==
    /\ UseStructTag' = tag
    /\ ret' = Assigned
    /\ configured' = TRUE
    /\ run' = NoRun
    /\ UNCHANGED <<UseTokenType, ins, build, writer>>

CallColumns ==
    /\ ret' = Returned("Columns", Columns(ins))
    /\ run' = NoRun
    /\ UNCHANGED <<UseTokenType, UseStructTag, ins, configured, build, writer>>

\* Mutant of CallParams: a token type outside the enumeration is replaced by
\* the default before rendering.
CallParamsNormalises ==
    /\ UseTokenType' = IF UseTokenType \in 0..4 THEN UseTokenType
                       ELSE QuestionMarkTokenType
    /\ ret' = Returned("Params", Params(ins))
    /\ run' = NoRun
    /\ UNCHANGED <<UseStructTag, ins, configured, build, writer>>

CallParams ==
    /\ ret' = Returned("Params", Params(ins))
    /\ run' = NoRun
    /\ UNCHANGED <<UseTokenType, UseStructTag, ins, configured, build, writer>>

CallSQL ==
    /\ ret' = Returned("SQL", SQL(ins))
    /\ run' = NoRun
    /\ UNCHANGED <<UseTokenType, UseStructTag, ins, configured, build, writer>>

CallArgs ==
    /\ ret' = Returned("Args", Args(ins))
    /\ run' = NoRun
    /\ UNCHANGED <<UseTokenType, UseStructTag, ins, configured, build, writer>>

\* A direct call Tokenize(reflect.TypeOf(ins.Data), tokenType), as the token
\* tests make it: Data is a struct passed by value.
CallTokenize(tokenType) ==
    /\ Kind(ins.Data) = "Struct"
    /\ ret' = [op |-> "Tokenize", out |-> Ok(Tokenize(TypeOf(ins.Data), tokenType)),
               tokenType |-> tokenType]
    /\ run' = NoRun
    /\ UNCHANGED <<UseTokenType, UseStructTag, ins, configured, build, writer>>

\* NewInsert(ins.Table, ins.Data).SQL() of src/sqlinsert.go.
CallLegacySQL ==
    /\ ret' = Returned("LegacySQL", LegacySQL(ins))
    /\ run' = NoRun
    /\ UNCHANGED <<UseTokenType, UseStructTag, ins, configured, build, writer>>

\* NewInsert(ins.Table, ins.Data).Args() of src/sqlinsert.go.
CallLegacyArgs ==
    /\ ret' = Returned("LegacyArgs", LegacyArgs(ins))
    /\ run' = NoRun
    /\ UNCHANGED <<UseTokenType, UseStructTag, ins, configured, build, writer>>

Next ==
    \/ \E tokenType \in TokenTypes : SetUseTokenType(tokenType)
    \/ \E tag \in StructTags : SetUseStructTag(tag)
    \/ CallColumns
    \/ CallParams
    \/ CallSQL
    \/ CallArgs
    \/ \E tokenType \in TokenTypes : CallTokenize(tokenType)
    \/ CallLegacySQL
    \/ CallLegacyArgs

Spec == Init /\ [][Next]_vars

(***************************************************************************)
(* Insert and InsertContext (src/pkg/insert.go:141-165) on an executor,    *)
(* the InsertWith handed in. The executor and the *sql.Stmt it prepares    *)
(* are outside the package: what they return is an input of each step.     *)
(* run.events lists the calls the function has made so far, each with the  *)
(* error it returned; run.out holds the values of the return statement     *)
(* while the deferred Close is still to run.                               *)
(***************************************************************************)
\* The two functions that run a statement.
Funcs == {"Insert", "InsertContext"}
\* *sql.Stmt values an executor hands out.
Handles == {"stmt1"}
\* Error values of the driver; the first is the failingMock's.
Errors == {"driver-level failure, cannot execute query", "sql: database is closed"}
\* context.Context values a caller passes to InsertContext.
Contexts == {"context.Background", "context.WithTimeout"}
\* Insert takes no context.
ContextsOf(fn) == IF fn = "InsertContext" THEN Contexts ELSE {NoContext}

\* What Prepare returns under database/sql: a handle, or an error.
PrepareOutcomes ==
    {[stmt |-> h, err |-> NilErr] : h \in Handles}
        \cup {[stmt |-> NilStmt, err |-> e] : e \in Errors}
\* What Exec, ExecContext and Close return as their error.
ErrorOutcomes == Errors \cup {NilErr}

\* Mutant of PrepareCall: the statement is terminated with a semicolon.
PrepareCallWithSemicolon(fn, ctx, query, prepared) ==
    [method |-> "Prepare", ctx |-> NoContext, query |-> query \o ";",
     args |-> <<>>, stmt |-> prepared.stmt, err |-> prepared.err]

\* stmt, err := with.Prepare(ins.SQL()): both functions call Prepare, the
\* method without a context. The event keeps the handle and error returned.
PrepareCall(fn, ctx, query, prepared) ==
    CASE fn = "Insert" ->
            [method |-> "Prepare", ctx |-> NoContext, query |-> query,
             args |-> <<>>, stmt |-> prepared.stmt, err |-> prepared.err]
      [] fn = "InsertContext" ->
            [method |-> "Prepare", ctx |-> NoContext, query |-> query,
             args |-> <<>>, stmt |-> prepared.stmt, err |-> prepared.err]

\* Mutant of ExecCall: ExecContext is called without the arguments.
ExecCallContextNoArgs(fn, ctx, stmt, args, err) ==
    CASE fn = "Insert" ->
            [method |-> "Exec", ctx |-> NoContext, query |-> "",
             args |-> args, stmt |-> stmt, err |-> err]
      [] fn = "InsertContext" ->
            [method |-> "ExecContext", ctx |-> ctx, query |-> "",
             args |-> <<>>, stmt |-> stmt, err |-> err]

\* _, err = stmt.Exec(ins.Args()...)  or  stmt.ExecContext(ctx, ins.Args()...)
ExecCall(fn, ctx, stmt, args, err) ==
    CASE fn = "Insert" ->
            [method |-> "Exec", ctx |-> NoContext, query |-> "",
             args |-> args, stmt |-> stmt, err |-> err]
      [] fn = "InsertContext" ->
            [method |-> "ExecContext", ctx |-> ctx, query |-> "",
             args |-> args, stmt |-> stmt, err |-> err]

\* Mutant of CloseCall: the deferred function was handed the handle before
\* Prepare assigned it.
CloseCallBeforePrepare(stmt, err) ==
    [method |-> "Close", ctx |-> NoContext, query |-> "",
     args |-> <<>>, stmt |-> NilStmt, err |-> err]

\* _ = stmt.Close() of the deferred function.
CloseCall(stmt, err) ==
    [method |-> "Close", ctx |-> NoContext, query |-> "",
     args |-> <<>>, stmt |-> stmt, err |-> err]

\* Mutant of PrepareFailure: the handle variable is returned on this path too.
PrepareFailureWithHandle(err) == Ok([stmt |-> "stmt1", err |-> err])

\* return nil, err
PrepareFailure(err) == Ok([stmt |-> NilStmt, err |-> err])

\* Mutant of InsertResult: the error is wrapped in one of the package's own.
InsertResultWrapped(stmt, err) ==
    Ok([stmt |-> stmt, err |-> IF err = NilErr THEN NilErr ELSE "sqlinsert: " \o err])

\* Mutant of InsertResult: the handle is kept from the caller.
InsertResultNoHandle(stmt, err) == Ok([stmt |-> NilStmt, err |-> err])

\* return stmt, err
InsertResult(stmt, err) == Ok([stmt |-> stmt, err |-> err])

Running == [op |-> "running"]

\* The call up to and including Prepare. ins.SQL() is evaluated first; when
\* it panics no call reaches the executor. A failed Prepare returns at once.
InsertPrepare(fn, ctx, prepared) ==
    /\ run.pc \in {"idle", "returned"}
    /\ LET query == SQL(ins)
       IN  IF query.panicked
           THEN /\ ret' = Returned(fn, query)
                /\ run' = [NoRun EXCEPT !.pc = "returned", !.fn = fn, !.ctx = ctx,
                                        !.out = query]
           ELSE LET call == PrepareCall(fn, ctx, query.val, prepared)
                IN  IF prepared.err # NilErr
                    THEN /\ ret' = Returned(fn, PrepareFailure(prepared.err))
                         /\ run' = [pc |-> "returned", fn |-> fn, ctx |-> ctx,
                                    stmt |-> prepared.stmt,
                                    out |-> PrepareFailure(prepared.err),
                                    events |-> <<call>>]
                    ELSE /\ ret' = Running
                         /\ run' = [pc |-> "prepared", fn |-> fn, ctx |-> ctx,
                                    stmt |-> prepared.stmt,
                                    out |-> NoRun.out,
                                    events |-> <<call>>]
    /\ UNCHANGED <<UseTokenType, UseStructTag, ins, configured, build, writer>>

\* Mutant of InsertExec: a failed Exec is tried a second time.
InsertExecRetry(err) ==
    /\ run.pc = "prepared"
    /\ LET call == ExecCall(run.fn, run.ctx, run.stmt, Args(ins).val, err)
       IN  run' = [run EXCEPT
                       !.pc = "executed",
                       !.out = InsertResult(run.stmt, err),
                       !.events = IF err = NilErr THEN Append(@, call)
                                  ELSE Append(Append(@, call), call)]
    /\ UNCHANGED <<UseTokenType, UseStructTag, ins, ret, configured, build, writer>>

\* The deferred Close is registered; ins.Args() is evaluated and handed to
\* Exec / ExecContext on the handle, and the return statement sets the
\* results. A panic of ins.Args() leaves the function through the deferred
\* Close without a call of Exec.
InsertExec(err) ==
    /\ run.pc = "prepared"
    /\ LET args == Args(ins)
       IN  IF args.panicked
           THEN run' = [run EXCEPT !.pc = "executed", !.out = args]
           ELSE run' = [run EXCEPT
                            !.pc = "executed",
                            !.out = InsertResult(run.stmt, err),
                            !.events = Append(@, ExecCall(run.fn, run.ctx, run.stmt,
                                                          args.val, err))]
    /\ UNCHANGED <<UseTokenType, UseStructTag, ins, ret, configured, build, writer>>

\* Mutant of InsertClose: the error of Close is returned when Exec gave none.
InsertCloseReportsError(err) ==
    /\ run.pc = "executed"
    /\ run' = [run EXCEPT !.pc = "closed",
                          !.events = Append(@, CloseCall(run.stmt, err)),
                          !.out = IF ~@.panicked /\ @.val.err = NilErr
                                  THEN InsertResult(run.stmt, err) ELSE @]
    /\ UNCHANGED <<UseTokenType, UseStructTag, ins, ret, configured, build, writer>>

\* Mutant of InsertClose: the handle is closed only after a successful Exec.
InsertCloseOnSuccess(err) ==
    /\ run.pc = "executed"
    /\ run' = [run EXCEPT !.pc = "closed",
                          !.events = IF run.out.val.err = NilErr
                                     THEN Append(@, CloseCall(run.stmt, err))
                                     ELSE @]
    /\ UNCHANGED <<UseTokenType, UseStructTag, ins, ret, configured, build, writer>>

\* The deferred function runs: stmt.Close(), its error dropped.
InsertClose(err) ==
    /\ run.pc = "executed"
    /\ run' = [run EXCEPT !.pc = "closed",
                          !.events = Append(@, CloseCall(run.stmt, err))]
    /\ UNCHANGED <<UseTokenType, UseStructTag, ins, ret, configured, build, writer>>

\* The caller receives the results.
InsertReturn ==
    /\ run.pc = "closed"
    /\ ret' = Returned(run.fn, run.out)
    /\ run' = [run EXCEPT !.pc = "returned"]
    /\ UNCHANGED <<UseTokenType, UseStructTag, ins, configured, build, writer>>

\* A caller that assigns the token type and runs statements, one call at a
\* time.
NextExec ==
    \/ \E tokenType \in TokenTypes :
          run.pc \in {"idle", "returned"} /\ SetUseTokenType(tokenType)
    \/ \E fn \in Funcs : \E ctx \in ContextsOf(fn) : \E prepared \in PrepareOutcomes :
          InsertPrepare(fn, ctx, prepared)
    \/ \E err \in ErrorOutcomes : InsertExec(err)
    \/ \E err \in ErrorOutcomes : InsertClose(err)
    \/ InsertReturn

\* The statements run are inserts into the candy table of the tests.
InitExec ==
    /\ Init
    /\ ins.Table = "candy"

SpecExec == InitExec /\ [][NextExec]_vars

(***************************************************************************)
(* Two threads with no synchronisation between them. One calls Params()   *)
(* or SQL() on the Insert; the call is cut into steps at its reads of the  *)
(* package variables: Params reads UseTokenType once, when it evaluates    *)
(* the argument of Tokenize (insert.go:66, 68, 77, 79), and Tokenize reads *)
(* UseStructTag in each iteration that renders a name (token.go:53-59).    *)
(* The other thread assigns one of the two variables. A TokenType is one   *)
(* word; a string is a data pointer and a length, stored as two words, so  *)
(* a read between the two stores sees the pointer of one value with the    *)
(* length of the other. build.kinds and build.keys record the values the   *)
(* variables held while the call ran.                                      *)
(***************************************************************************)
\* Small requests: a record and batches of 0..MaxRecs records, of the
\* two-field and the three-field type, all records of a batch alike.
RaceTypes == {pairInsert, mixedInsert}
RaceRecord(t) == StructValue(t, CHOOSE r \in RecordsOf(t) : TRUE)
RaceData ==
    { RaceRecord(t) : t \in RaceTypes }
        \cup UNION { { SliceOf(t, FALSE, [x \in 1..n |-> RaceRecord(t)]) : n \in 0..MaxRecs } :
                       t \in RaceTypes }

\* The type Columns and Params hand to Tokenize.
BuildType(v) ==
    IF Kind(v) = "Slice"
    THEN IF Kind(Index(v, 0)) = "Pointer" THEN TypeOf(Elem(Index(v, 0)))
         ELSE TypeOf(Index(v, 0))
    ELSE IF Kind(v) = "Pointer" THEN TypeOf(Elem(v))
    ELSE TypeOf(v)

\* Bytes past the end of a string are whatever follows it in memory, written
\* "?": no tag of the record types has a key with such a byte.
\* HeaderValue is the string a read sees between the two stores:
\* length(lenOf) bytes at the data pointer of ptrOf.
RECURSIVE BytesPastEnd(_)
BytesPastEnd(n) == IF n = 0 THEN "" ELSE "?" \o BytesPastEnd(n - 1)
HeaderValue(ptrOf, lenOf) ==
    IF Len(lenOf) <= Len(ptrOf) THEN SubSeq(ptrOf, 1, Len(lenOf))
    ELSE ptrOf \o BytesPastEnd(Len(lenOf) - Len(ptrOf))

\* The call is running.
InFlight == build.pc \in {"columns", "kind", "params"}

InitRace ==
    /\ UseTokenType \in TokenTypes
    /\ UseStructTag \in StructTags
    /\ ins \in [Table : {"t"}, Data : RaceData]
    /\ ret = NoCall
    /\ configured = (UseTokenType # QuestionMarkTokenType \/ UseStructTag # "col")
    /\ run = NoRun
    /\ build = NoBuild
    /\ writer = NoWriter

\* Params() or SQL() is entered. SQL evaluates Columns() first, which hands
\* ColumnNameTokenType to Tokenize; v.Index(0) panics on an empty slice.
RaceStart(op) ==
    /\ build.pc = "idle"
    /\ IF Kind(ins.Data) = "Slice" /\ SliceLen(ins.Data) = 0
       THEN /\ ret' = Returned(op, IndexPanic)
            /\ build' = [NoBuild EXCEPT !.pc = "done", !.op = op]
       ELSE /\ ret' = Running
            /\ build' = [pc |-> IF op = "SQL" THEN "columns" ELSE "kind",
                         op |-> op, tokenType |-> ColumnNameTokenType,
                         i |-> 0, b |-> "(", columns |-> "",
                         kinds |-> {UseTokenType}, keys |-> {UseStructTag}]
    /\ UNCHANGED <<UseTokenType, UseStructTag, ins, configured, run, writer>>

\* Params evaluates the argument UseTokenType and enters Tokenize.
RaceReadTokenType ==
    /\ build.pc = "kind"
    /\ build' = [build EXCEPT !.pc = "params", !.tokenType = UseTokenType,
                              !.i = 0, !.b = "("]
    /\ UNCHANGED <<UseTokenType, UseStructTag, ins, ret, configured, run, writer>>

\* Mutant of RaceField: the switch tests the package variable, not the
\* argument of Tokenize.
RaceFieldReadsTokenType ==
    /\ build.pc \in {"columns", "params"}
    /\ build.i < NumField(BuildType(ins.Data))
    /\ LET recordType == BuildType(ins.Data)
           tokenType == IF build.pc = "params" THEN UseTokenType ELSE build.tokenType
       IN  build' = [build EXCEPT
                         !.i = @ + 1,
                         !.b = @ \o TokenFor(recordType, tokenType, build.i)
                                 \o Separator(recordType, build.i)]
    /\ UNCHANGED <<UseTokenType, UseStructTag, ins, ret, configured, run, writer>>

\* One iteration of the loop of Tokenize: the token of field i, rendered
\* with UseStructTag as it is read now, and the separator.
RaceField ==
    /\ build.pc \in {"columns", "params"}
    /\ build.i < NumField(BuildType(ins.Data))
    /\ LET recordType == BuildType(ins.Data)
       IN  build' = [build EXCEPT
                         !.i = @ + 1,
                         !.b = @ \o TokenFor(recordType, build.tokenType, build.i)
                                 \o Separator(recordType, build.i)]
    /\ UNCHANGED <<UseTokenType, UseStructTag, ins, ret, configured, run, writer>>

\* Tokenize returns. After Columns(), SQL goes on to Params(); after the
\* row of Params, the row is repeated for each record and the call returns:
\* the parameters, or the statement formatted from the three pieces.
RaceRow ==
    /\ build.pc \in {"columns", "params"}
    /\ ~(build.i < NumField(BuildType(ins.Data)))
    /\ LET row == build.b \o ")"
           v == ins.Data
           params == IF Kind(v) = "Slice" THEN ParamsLoop(row, SliceLen(v), 1, row)
                     ELSE row
       IN  IF build.pc = "columns"
           THEN /\ build' = [build EXCEPT !.pc = "kind", !.columns = row]
                /\ ret' = ret
           ELSE /\ build' = [build EXCEPT !.pc = "done", !.b = row]
                /\ ret' = IF build.op = "Params" THEN Returned("Params", Ok(params))
                          ELSE Returned("SQL",
                                        Ok(Sprintf(InsertFormat,
                                                   << ins.Table, build.columns, params >>)))
    /\ UNCHANGED <<UseTokenType, UseStructTag, ins, configured, run, writer>>

\* The other thread: UseTokenType = tokenType, one store.
WriterSetTokenType(tokenType) ==
    /\ writer.pc = "ready"
    /\ UseTokenType' = tokenType
    /\ writer' = [pc |-> "done", val |-> ""]
    /\ build' = IF InFlight THEN [build EXCEPT !.kinds = @ \cup {tokenType}] ELSE build
    /\ configured' = TRUE
    /\ UNCHANGED <<UseStructTag, ins, ret, run>>

\* The other thread: UseStructTag = tag, the first of its two stores, the
\* data pointer or the length.
WriterStoreFirst(tag, word) ==
    /\ writer.pc = "ready"
    /\ LET torn == IF word = "pointer" THEN HeaderValue(tag, UseStructTag)
                   ELSE HeaderValue(UseStructTag, tag)
       IN  /\ UseStructTag' = torn
           /\ build' = IF InFlight THEN [build EXCEPT !.keys = @ \cup {torn}] ELSE build
    /\ writer' = [pc |-> "half", val |-> tag]
    /\ configured' = TRUE
    /\ UNCHANGED <<UseTokenType, ins, ret, run>>

\* The second store: UseStructTag holds the new value.
WriterStoreSecond ==
    /\ writer.pc = "half"
    /\ UseStructTag' = writer.val
    /\ build' = IF InFlight THEN [build EXCEPT !.keys = @ \cup {writer.val}] ELSE build
    /\ writer' = [pc |-> "done", val |-> ""]
    /\ UNCHANGED <<UseTokenType, ins, ret, configured, run>>

NextRace ==
    \/ \E op \in {"Params", "SQL"} : RaceStart(op)
    \/ RaceReadTokenType
    \/ RaceField
    \/ RaceRow
    \/ \E tokenType \in TokenTypes : WriterSetTokenType(tokenType)
    \/ \E tag \in StructTags : \E word \in {"pointer", "length"} : WriterStoreFirst(tag, word)
    \/ WriterStoreSecond

SpecRace == InitRace /\ [][NextRace]_vars

(***************************************************************************)
(* A caller that uses the whole interface on one Insert: the builders and  *)
(* the two functions that run the statement, one call at a time.           *)
(***************************************************************************)
NextUse ==
    \/ NextExec
    \/ /\ run.pc \in {"idle", "returned"}
       /\ \/ CallColumns
          \/ CallParams
          \/ CallSQL
          \/ CallArgs

\* The caller's Insert is one of the small requests, on any of the tables.
InitUse ==
    /\ Init
    /\ ins.Data \in RaceData

SpecUse == InitUse /\ [][NextUse]_vars

(***************************************************************************)
(* Vocabulary of the properties: the request as the specification sees it  *)
(* (n records of k fields), and text read back from a result.              *)
(***************************************************************************)
IsBatch == Kind(ins.Data) = "Slice"
\* The records of the request, dereferenced, in order; one for a single record.
Records ==
    LET d == ins.Data
        Deref(v) == IF v.kind = "Pointer" THEN v.elem ELSE v
    IN  IF d.kind = "Slice" THEN [r \in DOMAIN d.elems |-> Deref(d.elems[r])]
        ELSE << Deref(d) >>
NumRecs == Len(Records)
\* The shape of the request: the fields of its first record.
Shape == Records[1].type.Fields
FieldCount == Len(Shape)
\* The request is passed by pointer (a pointer, or a slice of pointers).
ByPointer ==
    \/ ins.Data.kind = "Pointer"
    \/ ins.Data.kind = "Slice" /\ NumRecs >= 1 /\ ins.Data.elems[1].kind = "Pointer"

\* The call op has just returned a value (it did not panic).
Got(op) == ret.op = op /\ ~ret.out.panicked

\* The name of a field under the annotation key: the value of its first
\* pair with that key, empty when it has none.
NameOf(field, key) ==
    LET hits == { x \in DOMAIN field.Tag : field.Tag[x][1] = key }
    IN  IF hits = {} THEN ""
        ELSE field.Tag[CHOOSE x \in hits : \A y \in hits : x <= y][2]

\* seq joined by sep.
RECURSIVE Join(_, _)
Join(seq, sep) ==
    IF seq = << >> THEN ""
    ELSE IF Len(seq) = 1 THEN seq[1]
    ELSE seq[1] \o sep \o Join(Tail(seq), sep)

\* n copies of x.
Copies(x, n) == [c \in 1..n |-> x]

\* The characters a..b of s (from 1), cut to what s has.
Sub(s, a, b) ==
    LET lo == IF a < 1 THEN 1 ELSE a
        hi == IF b > Len(s) THEN Len(s) ELSE b
    IN  IF lo > hi THEN "" ELSE SubSeq(s, lo, hi)

\* The character of s at position p (from 1).
CharAt(s, p) == Sub(s, p, p)
\* The positions of the character c in s.
PositionsOf(s, c) == { p \in 1..Len(s) : CharAt(s, p) = c }
\* The x-th smallest member of a set of numbers.
Nth(P, x) == CHOOSE p \in P : Cardinality({ q \in P : q < p }) = x - 1

\* The pieces of s between occurrences of the character sep.
Split(s, sep) ==
    LET P == PositionsOf(s, sep)
        m == Cardinality(P)
        start(g) == IF g = 1 THEN 1 ELSE Nth(P, g - 1) + 1
        stop(g) == IF g = m + 1 THEN Len(s) ELSE Nth(P, g) - 1
    IN  [g \in 1..(m + 1) |-> Sub(s, start(g), stop(g))]

\* s reads as a list of exactly k tokens separated by single commas.
IsListOf(s, k) == IF k = 0 THEN s = "" ELSE Len(Split(s, ",")) = k

\* How many times the character c occurs in s.
Count(s, c) == Cardinality(PositionsOf(s, c))

\* s without its first and last character.
Inner(s) == Sub(s, 2, Len(s) - 1)
\* s is enclosed in one pair of parentheses and holds no other parenthesis.
Enclosed(s) ==
    /\ Len(s) >= 2
    /\ Sub(s, 1, 1) = "("
    /\ Sub(s, Len(s), Len(s)) = ")"
    /\ Count(s, "(") = 1
    /\ Count(s, ")") = 1

\* s is a comma-separated list of parenthesised row groups: (..),(..),(..)
RowGroupPieces(s) == Split(s, ")")
IsRowGroups(s) ==
    LET ps == RowGroupPieces(s) IN
    /\ Len(ps) >= 2
    /\ ps[Len(ps)] = ""
    /\ Sub(ps[1], 1, 1) = "("
    /\ \A g \in 2..(Len(ps) - 1) : Sub(ps[g], 1, 2) = ",("
    /\ Count(s, "(") = Len(ps) - 1
\* The text inside each row group, in order.
RowGroups(s) ==
    LET ps == RowGroupPieces(s) IN
    [g \in 1..(Len(ps) - 1) |->
        IF g = 1 THEN Sub(ps[g], 2, Len(ps[g])) ELSE Sub(ps[g], 3, Len(ps[g]))]
\* The placeholders of a row group; a value placeholder is never empty.
Placeholders(group) == IF group = "" THEN << >> ELSE Split(group, ",")

\* The text of s after the first occurrence of marker ("" when it has none).
After(s, marker) ==
    LET P == { p \in 1..(Len(s) - Len(marker) + 1) :
                 Sub(s, p, p + Len(marker) - 1) = marker }
    IN  IF P = {} THEN "" ELSE Sub(s, Nth(P, 1) + Len(marker), Len(s))

\* The decimal numerals of 1, 2, 3, ...
Numerals == << "1", "2", "3", "4", "5", "6", "7", "8", "9", "10", "11", "12" >>

IsDigit(c) == \E d \in 1..10 : Sub("0123456789", d, d) = c
DigitValue(c) == (CHOOSE d \in 1..10 : Sub("0123456789", d, d) = c) - 1
\* The number written by the digits at the head of s (0 when there are none).
RECURSIVE LeadingNumber(_, _)
LeadingNumber(s, acc) ==
    IF s = "" \/ ~IsDigit(Head(s)) THEN acc
    ELSE LeadingNumber(Tail(s), acc * 10 + DigitValue(Head(s)))
\* The numbers that follow each dollar sign of s, in order.
DollarNumbers(s) ==
    LET P == PositionsOf(s, "$")
    IN  [x \in 1..Cardinality(P) |-> LeadingNumber(Sub(s, Nth(P, x) + 1, Len(s)), 0)]

\* The token the specification gives field f (from 1) of the shape under a kind.
ExpectedToken(fields, f, tokenType, key) ==
    CASE tokenType = ColumnNameTokenType    -> NameOf(fields[f], key)
      [] tokenType = QuestionMarkTokenType  -> "?"
      [] tokenType = AtColumnNameTokenType  -> "@" \o NameOf(fields[f], key)
      [] tokenType = OrdinalNumberTokenType -> "$" \o Numerals[f]
      [] tokenType = ColonTokenType         -> ":" \o NameOf(fields[f], key)

ValueTokenTypes ==
    {QuestionMarkTokenType, AtColumnNameTokenType, OrdinalNumberTokenType, ColonTokenType}

\* The same request with every record passed the other way: a value for a
\* pointer, a pointer for a value.
OtherPassing(d) ==
    LET Flip(v) == IF v.kind = "Pointer" THEN v.elem ELSE PointerTo(v)
    IN  IF d.kind = "Slice" THEN SliceOf(d.of, ~d.ptr, [r \in DOMAIN d.elems |-> Flip(d.elems[r])])
        ELSE Flip(d)
OtherIns == [ins EXCEPT !.Data = OtherPassing(ins.Data)]

(***************************************************************************)
(* C1. SQL() returns exactly "INSERT INTO " + Table + " " + Columns() +    *)
(* " VALUES " + Params(): the table name copied as it is, nothing added.   *)
(***************************************************************************)
C1_SQLIsConcatenation ==
    Got("SQL") =>
        /\ ~Columns(ins).panicked
        /\ ~Params(ins).panicked
        /\ ret.out.val = "INSERT INTO " \o ins.Table \o " " \o Columns(ins).val
                             \o " VALUES " \o Params(ins).val

\* SQL() has returned for a batch of two or more records passed by pointer,
\* under a name-based token kind.
C1_Witness ==
    /\ Got("SQL")
    /\ IsBatch /\ NumRecs >= 2 /\ ByPointer /\ FieldCount >= 2
    /\ UseTokenType = ColonTokenType

(***************************************************************************)
(* C2. For a batch of n >= 1 records Params() is the placeholder group of  *)
(* the first record's shape under the current kind, repeated n times and   *)
(* joined by single commas, with no leading or trailing comma.             *)
(***************************************************************************)
C2_ParamsRepeatsGroup ==
    (Got("Params") /\ IsBatch) =>
        /\ NumRecs >= 1
        /\ ret.out.val = Join(Copies(Tokenize(Records[1].type, UseTokenType), NumRecs), ",")

\* Params() has returned for a batch of three records under the ordinal kind.
C2_Witness ==
    /\ Got("Params")
    /\ IsBatch /\ NumRecs >= 3 /\ FieldCount >= 2
    /\ UseTokenType = OrdinalNumberTokenType

(***************************************************************************)
(* C3. Args() returns n*k values in row-major order: the value at index    *)
(* r*k+f (from 0) is the value of field f of record r, unchanged; a single *)
(* record gives its k values in field order.                               *)
(***************************************************************************)
C3_ArgsRowMajor ==
    Got("Args") =>
        /\ Len(ret.out.val) = NumRecs * FieldCount
        /\ \A r \in 0..(NumRecs - 1) : \A f \in 0..(FieldCount - 1) :
               ret.out.val[r * FieldCount + f + 1] = Records[r + 1].fields[f + 1]

\* Args() has returned for a batch of two or more records that differ, with
\* two or more fields each.
C3_Witness ==
    /\ Got("Args")
    /\ IsBatch /\ NumRecs >= 2 /\ FieldCount >= 2
    /\ Records[1] # Records[2]

(***************************************************************************)
(* C4. Under every value token kind Params() and Args() are aligned: the   *)
(* number of placeholders in Params() is len(Args()), and the placeholder  *)
(* at position f of row group r stands for field f of record r, the field  *)
(* whose value Args() holds at index r*k+f.                                *)
(***************************************************************************)
C4_ParamsArgsAligned ==
    ((Got("Params") \/ Got("Args")) /\ UseTokenType \in ValueTokenTypes) =>
        LET p == IF ret.op = "Params" THEN ret.out ELSE Params(ins)
            a == IF ret.op = "Args" THEN ret.out ELSE Args(ins)
            groups == RowGroups(p.val)
            flat == [x \in 1..(Len(groups) * FieldCount) |->
                        Placeholders(groups[((x - 1) \div FieldCount) + 1])
                            [((x - 1) % FieldCount) + 1]]
        IN  /\ ~p.panicked /\ ~a.panicked
            /\ IsRowGroups(p.val)
            /\ Len(groups) = NumRecs
            /\ \A g \in 1..Len(groups) : Len(Placeholders(groups[g])) = FieldCount
            /\ Len(flat) = Len(a.val)
            /\ \A r \in 0..(NumRecs - 1) : \A f \in 0..(FieldCount - 1) :
                   /\ flat[r * FieldCount + f + 1]
                        = ExpectedToken(Shape, f + 1, UseTokenType, UseStructTag)
                   /\ a.val[r * FieldCount + f + 1] = Records[r + 1].fields[f + 1]

\* Params() has returned for a batch of two differing records under the
\* at-name kind.
C4_Witness ==
    /\ Got("Params")
    /\ IsBatch /\ NumRecs >= 2 /\ FieldCount >= 2
    /\ Records[1] # Records[2]
    /\ UseTokenType = AtColumnNameTokenType

(***************************************************************************)
(* C5. Tokenize on a shape of k fields gives exactly k comma-separated     *)
(* tokens under every token kind; under the ordinal kind the token of the  *)
(* i-th field (from 1) is $i.                                              *)
(***************************************************************************)
C5_TokenizeCountAndOrdinal ==
    Got("Tokenize") =>
        LET k == Len(ins.Data.type.Fields)
            list == Inner(ret.out.val)
        IN  /\ Enclosed(ret.out.val)
            /\ IsListOf(list, k)
            /\ ret.tokenType = OrdinalNumberTokenType =>
                   \A f \in 1..k : Split(list, ",")[f] = "$" \o Numerals[f]

\* Tokenize has returned under the ordinal kind for a shape whose last
\* ordinal has two digits.
C5_Witness ==
    /\ Got("Tokenize")
    /\ ret.tokenType = OrdinalNumberTokenType
    /\ Len(ins.Data.type.Fields) >= 10

(***************************************************************************)
(* C6. Tokenize gives one token per field in declared order: the field's   *)
(* tag name under the column-name kind, @name under the at-name kind,      *)
(* :name under the colon-name kind, and ? for every field under the        *)
(* question-mark kind.                                                     *)
(***************************************************************************)
C6_TokenizeNamedTokens ==
    (Got("Tokenize")
        /\ ret.tokenType \in {ColumnNameTokenType, QuestionMarkTokenType,
                              AtColumnNameTokenType, ColonTokenType}) =>
        LET fields == ins.Data.type.Fields
            k == Len(fields)
            name(f) == NameOf(fields[f], UseStructTag)
            expected == [f \in 1..k |->
                CASE ret.tokenType = ColumnNameTokenType   -> name(f)
                  [] ret.tokenType = AtColumnNameTokenType -> "@" \o name(f)
                  [] ret.tokenType = ColonTokenType        -> ":" \o name(f)
                  [] ret.tokenType = QuestionMarkTokenType -> "?"]
        IN  /\ Enclosed(ret.out.val)
            /\ Inner(ret.out.val) = Join(expected, ",")
            /\ k >= 1 => Split(Inner(ret.out.val), ",") = expected

\* Tokenize has returned under the colon-name kind for a shape of several
\* fields with different names.
C6_Witness ==
    /\ Got("Tokenize")
    /\ ret.tokenType = ColonTokenType
    /\ Len(ins.Data.type.Fields) >= 2
    /\ NameOf(ins.Data.type.Fields[1], UseStructTag)
         # NameOf(ins.Data.type.Fields[2], UseStructTag)

(***************************************************************************)
(* C7. Under the ordinal kind, for a batch of n > 1 records of k fields,   *)
(* each of the n row groups of Params() and of SQL() is numbered $1..$k:   *)
(* the numbering restarts at 1 in each group and no placeholder number     *)
(* above k appears in the statement.                                       *)
(***************************************************************************)
C7_OrdinalRestartsPerRow ==
    ((Got("Params") \/ Got("SQL"))
        /\ UseTokenType = OrdinalNumberTokenType /\ IsBatch /\ NumRecs > 1) =>
        LET values == IF ret.op = "SQL" THEN After(ret.out.val, " VALUES ") ELSE ret.out.val
            groups == RowGroups(values)
        IN  /\ IsRowGroups(values)
            /\ Len(groups) = NumRecs
            /\ \A g \in 1..Len(groups) :
                   Placeholders(groups[g]) = [f \in 1..FieldCount |-> "$" \o Numerals[f]]
            /\ DollarNumbers(ret.out.val)
                 = [x \in 1..(NumRecs * FieldCount) |-> ((x - 1) % FieldCount) + 1]
            /\ \A x \in DOMAIN DollarNumbers(ret.out.val) :
                   DollarNumbers(ret.out.val)[x] <= FieldCount

\* SQL() has returned under the ordinal kind for a batch of three records of
\* two or more fields.
C7_Witness ==
    /\ Got("SQL")
    /\ UseTokenType = OrdinalNumberTokenType
    /\ IsBatch /\ NumRecs >= 3 /\ FieldCount >= 2

(***************************************************************************)
(* C8. Columns(), Params(), SQL() and Args() return the same whether the   *)
(* record is passed by value or by pointer, and whether the batch is a     *)
(* sequence of values or of pointers to the same records.                  *)
(***************************************************************************)
C8_ValueOrPointerAlike ==
    /\ ret.op = "Columns" => ret.out = Columns(OtherIns)
    /\ ret.op = "Params"  => ret.out = Params(OtherIns)
    /\ ret.op = "SQL"     => ret.out = SQL(OtherIns)
    /\ ret.op = "Args"    => ret.out = Args(OtherIns)

\* Args() has returned for a batch of pointers to two differing records.
C8_Witness ==
    /\ Got("Args")
    /\ IsBatch /\ NumRecs >= 2 /\ ByPointer /\ FieldCount >= 1
    /\ Records[1] # Records[2]

(***************************************************************************)
(* C9. Tokenize encloses its tokens in one pair of parentheses and         *)
(* separates them by a single comma, no whitespace; so for the candy       *)
(* record of seven fields under the ordinal kind SQL() is exactly          *)
(* INSERT INTO candy (id,candy_name,form_factor,description,manufacturer,  *)
(* weight_grams,ts) VALUES ($1,$2,$3,$4,$5,$6,$7).                         *)
(***************************************************************************)
CandySQL ==
    "INSERT INTO candy (id,candy_name,form_factor,description,manufacturer,weight_grams,ts)"
        \o " VALUES ($1,$2,$3,$4,$5,$6,$7)"

\* The request is the fixture's single candy record, by value or by pointer.
IsCandyRecord ==
    /\ ins.Table = "candy"
    /\ ~IsBatch
    /\ Records[1] = StructValue(candyInsert, recValue)

C9_ParenthesesNoWhitespace ==
    /\ Got("Tokenize") =>
           /\ Enclosed(ret.out.val)
           /\ Count(ret.out.val, " ") = 0
           /\ Count(ret.out.val, ",") = (IF Len(ins.Data.type.Fields) = 0 THEN 0
                                         ELSE Len(ins.Data.type.Fields) - 1)
    /\ (Got("SQL") /\ IsCandyRecord /\ UseTokenType = OrdinalNumberTokenType
            /\ UseStructTag = "col") =>
           ret.out.val = CandySQL

\* SQL() has returned for the candy record under the ordinal kind.
C9_Witness ==
    /\ Got("SQL")
    /\ IsCandyRecord
    /\ UseTokenType = OrdinalNumberTokenType
    /\ UseStructTag = "col"

(***************************************************************************)
(* C10. For the single record [id="x", weight=1.5], table t and the        *)
(* question-mark kind: Args() is ["x", 1.5] in that order; SQL() of the    *)
(* builder of src/pkg is INSERT INTO t (id,weight) VALUES (?,?), the       *)
(* tokens separated by a comma alone; the text with a space after each     *)
(* comma, INSERT INTO t (id, weight) VALUES (?, ?), is what SQL() of the   *)
(* older builder of src/sqlinsert.go returns.                              *)
(***************************************************************************)
\* The request is the record [id="x", weight=1.5] for table t, under the
\* question-mark kind and the default annotation key.
IsRoundTripRequest ==
    /\ ins.Table = "t"
    /\ ~IsBatch
    /\ Records[1] = StructValue(pairInsert, <<GoString("x"), GoFloat("1.5")>>)
    /\ UseTokenType = QuestionMarkTokenType
    /\ UseStructTag = "col"

C10_RoundTrip ==
    IsRoundTripRequest =>
        /\ Got("SQL") => ret.out.val = "INSERT INTO t (id,weight) VALUES (?,?)"
        /\ Got("Args") => ret.out.val = << GoString("x"), GoFloat("1.5") >>
        /\ Got("LegacySQL") => ret.out.val = "INSERT INTO t (id, weight) VALUES (?, ?)"
        /\ Got("LegacyArgs") => ret.out.val = << GoString("x"), GoFloat("1.5") >>

\* The claim as stated: SQL() is the text with a space after each comma.
C10_AsStated ==
    IsRoundTripRequest =>
        /\ Got("SQL") => ret.out.val = "INSERT INTO t (id, weight) VALUES (?, ?)"
        /\ Got("Args") => ret.out.val = << GoString("x"), GoFloat("1.5") >>

\* SQL() of the builder of src/pkg has returned for the round-trip request.
C10_Witness ==
    /\ IsRoundTripRequest
    /\ Got("SQL")

(***************************************************************************)
(* Vocabulary of the executor properties, read from the calls recorded in  *)
(* run.events and from what the caller received in ret.                    *)
(***************************************************************************)
\* The call in flight, or the last one made, reached the executor.
Called == run.events # << >>
\* The caller has received the results of Insert or InsertContext.
GotInsert == ret.op \in Funcs /\ ~ret.out.panicked
\* The error and the handle that Prepare returned to the call.
PrepareErr == run.events[1].err
PreparedStmt == run.events[1].stmt
\* The kind of the x-th event: prepare, exec or release.
EventKind(x) ==
    LET method == run.events[x].method
    IN  IF method \in {"Prepare", "PrepareContext"} THEN "prepare"
        ELSE IF method \in {"Exec", "ExecContext"} THEN "exec"
        ELSE "release"
EventKinds == [x \in DOMAIN run.events |-> EventKind(x)]
\* How many events of a kind the call has made.
EventCount(kind) == Cardinality({ x \in DOMAIN run.events : EventKind(x) = kind })
\* s is a prefix of t.
IsPrefix(s, t) == Len(s) <= Len(t) /\ \A x \in DOMAIN s : s[x] = t[x]

\* C11: when the executor's prepare returns an error, Insert and
\* InsertContext return that very error with a nil handle, and the call has
\* made no exec and no release: prepare is its only event.
C11_PrepareErrorReturnsAtOnce ==
    (Called /\ EventKind(1) = "prepare" /\ PrepareErr # NilErr) =>
        /\ run.pc = "returned"
        /\ ret = Returned(run.fn, Ok([stmt |-> NilStmt, err |-> PrepareErr]))
        /\ EventCount("exec") = 0
        /\ EventCount("release") = 0

C11_Witness ==
    /\ ret.op = "InsertContext"
    /\ Called
    /\ PrepareErr \in Errors
    /\ ret.out.val.err = PrepareErr

\* C12: in every call whose prepare succeeds the events come in the order
\* prepare, exec, release; the caller has the results only after the release,
\* and by then the handle prepare returned was released exactly once, whether
\* exec returned an error or not.
C12_PrepareExecRelease ==
    (Called /\ PrepareErr = NilErr) =>
        /\ IsPrefix(EventKinds, <<"prepare", "exec", "release">>)
        /\ ret.op \in Funcs => run.pc = "returned"
        /\ run.pc = "returned" =>
              /\ EventKinds = <<"prepare", "exec", "release">>
              /\ EventCount("release") = 1
              /\ run.events[3].stmt = PreparedStmt

C12_Witness ==
    /\ ret.op = "Insert"
    /\ Called
    /\ PrepareErr = NilErr
    /\ Len(run.events) = 3
    /\ run.events[2].err \in Errors
    /\ run.events[3].method = "Close"

\* C13: the error the caller receives is the error value prepare returned
\* or, when prepare returned none, the error value exec returned, unchanged;
\* it is nil only when both returned nil.
C13_ErrorUntouched ==
    (GotInsert /\ Called) =>
        /\ ret.out.val.err = IF PrepareErr # NilErr THEN PrepareErr
                             ELSE run.events[2].err
        /\ ret.out.val.err = NilErr =>
              /\ PrepareErr = NilErr
              /\ EventKind(2) = "exec"
              /\ run.events[2].err = NilErr

C13_Witness ==
    /\ GotInsert
    /\ Called
    /\ PrepareErr = NilErr
    /\ run.events[2].method = "ExecContext"
    /\ run.events[2].err = "sql: database is closed"
    /\ ret.out.val.err = "sql: database is closed"

\* C14: a call never retries. Once it has reached the executor it has made
\* exactly one prepare and at most one exec, whatever errors came back.
C14_NoRetry ==
    Called =>
        /\ EventCount("prepare") = 1
        /\ EventCount("exec") <= 1

C14_Witness ==
    /\ ret.op = "Insert"
    /\ Called
    /\ run.pc = "returned"
    /\ Len(run.events) = 3
    /\ run.events[2].err \in Errors
    /\ EventCount("exec") = 1

\* C15 as the specification states it: after a successful prepare the caller
\* receives no handle, on the success path and on the exec-failure path.
C15_AsStated ==
    (GotInsert /\ Called /\ PrepareErr = NilErr) => ret.out.val.stmt = NilStmt

\* C15, amended: after a successful prepare the caller receives the handle
\* prepare returned, on the success path and on the exec-failure path alike,
\* and the call has released it on the way out; the handle is nil only when
\* prepare failed.
C15_ReturnsReleasedHandle ==
    (GotInsert /\ Called) =>
        IF PrepareErr # NilErr
        THEN ret.out.val.stmt = NilStmt
        ELSE /\ ret.out.val.stmt = PreparedStmt
             /\ ret.out.val.stmt \in Handles
             /\ \E x \in DOMAIN run.events :
                   /\ run.events[x].method = "Close"
                   /\ run.events[x].stmt = ret.out.val.stmt

C15_Witness ==
    /\ GotInsert
    /\ Called
    /\ ret.out.val.stmt \in Handles
    /\ ret.out.val.err = NilErr

\* C16 as the specification states it: InsertContext hands the caller's
\* context to both calls, prepare being the executor's PrepareContext and
\* receiving the context that ExecContext receives.
C16_ContextInPrepareAndExec ==
    (Called /\ run.fn = "InsertContext") =>
        \A x \in DOMAIN run.events :
            /\ EventKind(x) = "prepare" =>
                  /\ run.events[x].method = "PrepareContext"
                  /\ run.events[x].ctx = run.ctx
            /\ EventKind(x) = "exec" =>
                  /\ run.events[x].method = "ExecContext"
                  /\ run.events[x].ctx = run.ctx

\* C17: the call hands exactly the string SQL() to prepare and exactly the
\* sequence Args() to exec, made on the handle prepare returned; when both
\* return no error the caller receives a nil error. This holds under every
\* token type and for a single record and a batch.
C17_SQLToPrepareArgsToExec ==
    Called =>
        /\ run.events[1].method = "Prepare"
        /\ run.events[1].query = SQL(ins).val
        /\ Len(run.events) >= 2 =>
              /\ EventKind(2) = "exec"
              /\ run.events[2].args = Args(ins).val
              /\ run.events[2].stmt = PreparedStmt
        /\ (GotInsert /\ PrepareErr = NilErr /\ run.events[2].err = NilErr) =>
              ret.out.val.err = NilErr

C17_Witness ==
    /\ ret.op = "InsertContext"
    /\ ~ret.out.panicked
    /\ ret.out.val.err = NilErr
    /\ IsBatch
    /\ NumRecs = 2
    /\ UseTokenType = OrdinalNumberTokenType
    /\ Len(run.events[2].args) = 2 * FieldCount

(***************************************************************************)
(* Vocabulary of the configuration properties.                             *)
(***************************************************************************)
\* The five enumerated token types.
EnumeratedTokenTypes == ValueTokenTypes \cup {ColumnNameTokenType}
\* The row the specification gives a shape under a kind and an annotation
\* key: its tokens between parentheses, commas between them.
ExpectedRow(fields, tokenType, key) ==
    "(" \o Join([f \in DOMAIN fields |-> ExpectedToken(fields, f, tokenType, key)], ",")
        \o ")"
\* The field carries no annotation under the key.
LacksKey(field, key) == \A x \in DOMAIN field.Tag : field.Tag[x][1] # key

\* C18: as long as no package variable has been assigned, the token type is
\* the question mark and the annotation key is col: Params() renders one ?
\* for each of the k fields of each record and Columns() renders the values
\* of the col tags.
C18_Defaults ==
    ~configured =>
        /\ UseTokenType = QuestionMarkTokenType
        /\ UseStructTag = "col"
        /\ Got("Params") =>
              ret.out.val =
                  Join(Copies("(" \o Join(Copies("?", FieldCount), ",") \o ")", NumRecs), ",")
        /\ Got("Columns") =>
              ret.out.val =
                  "(" \o Join([f \in DOMAIN Shape |-> NameOf(Shape[f], "col")], ",") \o ")"

C18_Witness ==
    /\ ~configured
    /\ Got("Params")
    /\ ~IsBatch
    /\ FieldCount = 7
    /\ ret.out.val = "(?,?,?,?,?,?,?)"

\* C19: the package variables are read when a function is called. After any
\* assignments, what Params(), Columns() and SQL() return on the Insert,
\* built before them, is rendered with the token type and annotation key
\* assigned last; nothing is kept from construction or an earlier call.
C19_ReadAtCallTime ==
    UseTokenType \in EnumeratedTokenTypes =>
        /\ Got("Params") =>
              ret.out.val =
                  Join(Copies(ExpectedRow(Shape, UseTokenType, UseStructTag), NumRecs), ",")
        /\ Got("Columns") =>
              ret.out.val = ExpectedRow(Shape, ColumnNameTokenType, UseStructTag)
        /\ Got("SQL") =>
              ret.out.val =
                  "INSERT INTO " \o ins.Table \o " "
                      \o ExpectedRow(Shape, ColumnNameTokenType, UseStructTag)
                      \o " VALUES "
                      \o Join(Copies(ExpectedRow(Shape, UseTokenType, UseStructTag),
                                     NumRecs), ",")

C19_Witness ==
    /\ configured
    /\ UseTokenType = ColonTokenType
    /\ UseStructTag = "db"
    /\ ins.Table = "t"
    /\ Got("SQL")
    /\ ret.out.val = "INSERT INTO t (a_db,,c_db) VALUES (:a_db,:,:c_db),(:a_db,:,:c_db)"

\* C20: a field without the configured annotation key is rendered with an
\* empty name and nothing fails: its column token is empty, its at-name
\* token is @ and its colon-name token is :, and the tokens are still as
\* many as the fields.
C20_MissingAnnotationEmptyName ==
    /\ Got("Tokenize") =>
          LET tokens == Split(Inner(ret.out.val), ",")
          IN  \A f \in DOMAIN Shape :
                  LacksKey(Shape[f], UseStructTag) =>
                      /\ Enclosed(ret.out.val)
                      /\ Len(tokens) = FieldCount
                      /\ ret.tokenType = ColumnNameTokenType => tokens[f] = ""
                      /\ ret.tokenType = AtColumnNameTokenType => tokens[f] = "@"
                      /\ ret.tokenType = ColonTokenType => tokens[f] = ":"
    /\ ret.op = "Columns" =>
          \/ NumRecs = 0
          \/ \A f \in DOMAIN Shape :
                 LacksKey(Shape[f], UseStructTag) =>
                     /\ ~ret.out.panicked
                     /\ Len(Split(Inner(ret.out.val), ",")) = FieldCount
                     /\ Split(Inner(ret.out.val), ",")[f] = ""

C20_Witness ==
    /\ Got("Tokenize")
    /\ UseStructTag = "col"
    /\ ret.tokenType = AtColumnNameTokenType
    /\ FieldCount = 3
    /\ LacksKey(Shape[2], "col")
    /\ ret.out.val = "(@a,@,@)"

\* The request has records and their shape has no field.
ZeroFields == NumRecs >= 1 /\ FieldCount = 0

\* C21 as the specification states it: for a shape with zero fields the
\* string Tokenize returns is empty, for every token type.
C21_AsStated ==
    (Got("Tokenize") /\ ZeroFields) => ret.out.val = ""

\* C21, amended: for a shape with zero fields Tokenize returns "()", the
\* parentheses with no token between them, for every token type; Columns(),
\* Params(), SQL() and Args() return without a panic: "()", one "()" for each
\* record, the statement made of them, and no argument. The older builder
\* writes the parentheses in SQL() around an empty token string.
C21_ZeroFields ==
    ZeroFields =>
        /\ ret.op \in {"Tokenize", "Columns", "Params", "SQL", "Args"} => ~ret.out.panicked
        /\ Got("Tokenize") => ret.out.val = "()"
        /\ Got("Columns") => ret.out.val = "()"
        /\ Got("Params") => ret.out.val = Join(Copies("()", NumRecs), ",")
        /\ Got("SQL") =>
              ret.out.val = "INSERT INTO " \o ins.Table \o " () VALUES "
                                \o Join(Copies("()", NumRecs), ",")
        /\ Got("Args") => ret.out.val = << >>
        /\ Got("LegacySQL") => ret.out.val = "INSERT INTO " \o ins.Table \o " () VALUES ()"

C21_Witness ==
    /\ ZeroFields
    /\ Got("Tokenize")
    /\ ret.tokenType = OrdinalNumberTokenType
    /\ ret.out.val = "()"

\* The builders of the Inserter interface.
Builders == {"Columns", "Params", "SQL", "Args"}

\* C22: Columns(), Params(), SQL() and Args() are pure builders: a call of
\* one makes no call on the executor and leaves the Insert (Table, Data and
\* the record values in it) and both package variables as they were. Insert
\* and InsertContext, the only functions that call the executor, leave the
\* Insert and the package variables as they were at every step.
C22_PureBuilders ==
    [][ /\ ret'.op \in Builders =>
              /\ run'.events = << >>
              /\ ins' = ins
              /\ UseTokenType' = UseTokenType
              /\ UseStructTag' = UseStructTag
        /\ run'.pc # "idle" =>
              /\ ins' = ins
              /\ UseTokenType' = UseTokenType
              /\ UseStructTag' = UseStructTag ]_vars

C22_Witness ==
    /\ Got("Params")
    /\ UseTokenType \notin EnumeratedTokenTypes
    /\ IsBatch
    /\ NumRecs = 2
    /\ run.events = << >>

\* The request is a batch with no record in it.
EmptyBatch == IsBatch /\ NumRecs = 0

\* C25: for a batch that is an empty sequence Columns(), Params(), SQL() and
\* Args() each fail with the runtime's index failure on the first element
\* and return nothing; Insert and InsertContext fail the same way before
\* Prepare is called, so the executor sees no call.
C25_EmptyBatchPanics ==
    EmptyBatch =>
        /\ ret.op \in Builders \cup Funcs =>
              /\ ret.out.panicked
              /\ ret.out = Panic("reflect: slice index out of range")
        /\ run.events = << >>
        /\ run.pc \in {"idle", "returned"}

C25_Witness ==
    /\ EmptyBatch
    /\ ret.op = "InsertContext"
    /\ ret.out.panicked
    /\ run.pc = "returned"
    /\ run.events = << >>

\* C26: for a token type outside the five enumerated values Tokenize does
\* not fail: on a shape of k fields it returns the parentheses around k empty
\* tokens, that is k-1 commas and nothing else, and "()" when k is 0 or 1.
C26_UnknownTokenType ==
    (ret.op = "Tokenize" /\ ret.tokenType \notin EnumeratedTokenTypes) =>
        /\ ~ret.out.panicked
        /\ ret.out.val = "(" \o Join(Copies("", FieldCount), ",") \o ")"
        /\ Count(ret.out.val, ",") = IF FieldCount = 0 THEN 0 ELSE FieldCount - 1
        /\ Len(ret.out.val) = 2 + Count(ret.out.val, ",")
        /\ FieldCount \in {0, 1} => ret.out.val = "()"

C26_Witness ==
    /\ Got("Tokenize")
    /\ ret.tokenType = MaxTokenTypeValue
    /\ FieldCount = 1
    /\ ret.out.val = "()"

\* The handle prepare returned is live: the call has not released it yet.
Live == Called /\ PrepareErr = NilErr /\ EventCount("release") = 0
\* The last call the function made.
LastEvent == run.events[Len(run.events)]

\* C27: whenever the caller receives a non-nil handle from Insert or
\* InsertContext, the last thing the call did was to release that handle;
\* while a handle is live the caller has received nothing.
C27_NoLiveHandleObserved ==
    /\ (GotInsert /\ ret.out.val.stmt # NilStmt) =>
          /\ Called
          /\ LastEvent.method = "Close"
          /\ LastEvent.stmt = ret.out.val.stmt
    /\ Live => ret.op \notin Funcs

C27_Witness ==
    /\ GotInsert
    /\ ret.out.val.stmt \in Handles
    /\ ret.out.val.err \in Errors
    /\ LastEvent.method = "Close"
    /\ LastEvent.stmt = ret.out.val.stmt

\* C28: the error of releasing the handle is discarded. When the release
\* failed, the caller still receives the handle prepare returned and the
\* error exec returned: a nil error when prepare and exec succeeded.
C28_CloseErrorDiscarded ==
    (GotInsert /\ Called /\ LastEvent.method = "Close" /\ LastEvent.err # NilErr) =>
        /\ ret.out.val.stmt = PreparedStmt
        /\ ret.out.val.err = run.events[2].err
        /\ ret.out.val.err # LastEvent.err \/ run.events[2].err = LastEvent.err
        /\ (PrepareErr = NilErr /\ run.events[2].err = NilErr) => ret.out.val.err = NilErr

C28_Witness ==
    /\ GotInsert
    /\ Called
    /\ LastEvent.method = "Close"
    /\ LastEvent.err \in Errors
    /\ run.events[2].err = NilErr
    /\ ret.out.val.err = NilErr

\* An event with the context taken out: the method named without Context.
UpToContext(e) ==
    [e EXCEPT !.ctx = NoContext,
              !.method = IF @ = "ExecContext" THEN "Exec"
                         ELSE IF @ = "PrepareContext" THEN "Prepare" ELSE @]
\* The events of a finished call, described without naming the function:
\* from the request, the configuration and what the executor returned.
EventsUpToContext ==
    LET prepare == [method |-> "Prepare", ctx |-> NoContext, query |-> SQL(ins).val,
                    args |-> << >>, stmt |-> PreparedStmt, err |-> PrepareErr]
    IN  IF PrepareErr # NilErr THEN << prepare >>
        ELSE << prepare,
                [method |-> "Exec", ctx |-> NoContext, query |-> "",
                 args |-> Args(ins).val, stmt |-> PreparedStmt, err |-> run.events[2].err],
                [method |-> "Close", ctx |-> NoContext, query |-> "",
                 args |-> << >>, stmt |-> PreparedStmt, err |-> run.events[3].err] >>
\* The results of a finished call, described the same way.
ResultUpToContext ==
    IF PrepareErr # NilErr THEN [stmt |-> NilStmt, err |-> PrepareErr]
    ELSE [stmt |-> PreparedStmt, err |-> run.events[2].err]

\* C29: Insert and InsertContext are the same up to the context. For the
\* same request, configuration and executor outcomes a finished call of
\* either has made the same events (prepare with the same SQL, exec with the
\* same arguments on the same handle, release) and returned the same handle
\* and error: both equal one description that does not name the function.
C29_EquivalentUpToContext ==
    (GotInsert /\ Called) =>
        /\ [x \in DOMAIN run.events |-> UpToContext(run.events[x])] = EventsUpToContext
        /\ ret.out.val = ResultUpToContext

C29_Witness ==
    /\ ret.op = "InsertContext"
    /\ ~ret.out.panicked
    /\ run.ctx = "context.WithTimeout"
    /\ Len(run.events) = 3
    /\ run.events[2].method = "ExecContext"
    /\ Len(run.events[2].args) >= 2

\* The first record of the batch, passed alone as it is in the batch (by
\* value or by pointer), in an Insert on the same table.
AloneIns == [ins EXCEPT !.Data = ins.Data.elems[1]]

\* C30: a batch of exactly one record yields the same Columns(), Params(),
\* SQL() and Args() as that record passed alone as a single-record request,
\* under every token type and annotation key.
C30_BatchOfOneAsSingle ==
    (IsBatch /\ NumRecs = 1) =>
        /\ ret.op \in Builders => ~ret.out.panicked
        /\ ret.op = "Columns" => ret.out = Columns(AloneIns)
        /\ ret.op = "Params"  => ret.out = Params(AloneIns)
        /\ ret.op = "SQL"     => ret.out = SQL(AloneIns)
        /\ ret.op = "Args"    => ret.out = Args(AloneIns)

C30_Witness ==
    /\ IsBatch
    /\ NumRecs = 1
    /\ ByPointer
    /\ FieldCount = 2
    /\ UseTokenType = OrdinalNumberTokenType
    /\ Got("SQL")
    /\ ret.out.val = "INSERT INTO t (id,weight) VALUES ($1,$2)"

(***************************************************************************)
(* Vocabulary of the two-thread properties.                                *)
(***************************************************************************)
\* The token types that render a field's name.
NameTokenTypes == {ColumnNameTokenType, AtColumnNameTokenType, ColonTokenType}
\* The token of field f under any token type: nothing for a type outside the
\* enumeration.
ExpectedTokenAny(fields, f, tokenType, key) ==
    IF tokenType \in EnumeratedTokenTypes THEN ExpectedToken(fields, f, tokenType, key)
    ELSE ""
\* A row, the parameters and the statement rendered whole under one token
\* type and one annotation key.
RowUnder(tokenType, key) ==
    "(" \o Join([f \in DOMAIN Shape |-> ExpectedTokenAny(Shape, f, tokenType, key)], ",")
        \o ")"
ParamsUnder(tokenType, key) == Join(Copies(RowUnder(tokenType, key), NumRecs), ",")
SQLUnder(tokenType, key) ==
    "INSERT INTO " \o ins.Table \o " " \o RowUnder(ColumnNameTokenType, key)
        \o " VALUES " \o ParamsUnder(tokenType, key)
\* The call that ran beside the other thread has returned a value.
Built(op) == build.pc = "done" /\ Got(op)
\* The row is a parenthesised list of one token for each field, the token of
\* field f being its rendering under the token type and one of the keys.
TokensFrom(row, tokenType, keys) ==
    /\ Enclosed(row)
    /\ IsListOf(Inner(row), FieldCount)
    /\ \A f \in DOMAIN Shape :
          Split(Inner(row), ",")[f] \in
              { ExpectedTokenAny(Shape, f, tokenType, key) : key \in keys }
\* The column list and the parameters of a statement on the Insert's table.
ColumnsPart(s) ==
    LET rest == After(s, "INSERT INTO " \o ins.Table \o " ")
    IN  Sub(rest, 1, Len(rest) - Len(After(rest, " VALUES ")) - Len(" VALUES "))
ParamsPart(s) == After(s, " VALUES ")
\* The first row group of the parameters.
FirstRow(params) ==
    IF PositionsOf(params, ")") = {} THEN ""
    ELSE Sub(params, 1, Nth(PositionsOf(params, ")"), 1))

\* C23: one Params() or SQL() call reads the token type once. When another
\* thread assigns UseTokenType while the call runs (the annotation key
\* staying as it is), what the call returns equals the output under one
\* token type that the variable held during the call, the old one or the
\* new one: all n row groups are rendered with it, none mixes the two.
C23_OneTokenTypePerCall ==
    (build.pc = "done" /\ Cardinality(build.keys) = 1) =>
        \A key \in build.keys :
            /\ Got("Params") =>
                  \E tokenType \in build.kinds : ret.out.val = ParamsUnder(tokenType, key)
            /\ Got("SQL") =>
                  \E tokenType \in build.kinds : ret.out.val = SQLUnder(tokenType, key)

C23_Witness ==
    /\ Built("SQL")
    /\ IsBatch
    /\ NumRecs = 3
    /\ build.kinds = {QuestionMarkTokenType, OrdinalNumberTokenType}
    /\ UseTokenType = OrdinalNumberTokenType
    /\ ret.out.val = "INSERT INTO t (id,weight) VALUES (?,?),(?,?),(?,?)"

\* C24 as stated: when another thread assigns UseStructTag while a SQL()
\* call with a name-based token type runs, the statement returned equals
\* the output under one annotation key, the old one or the new one.
C24_AsStated ==
    (Built("SQL") /\ build.tokenType \in NameTokenTypes) =>
        \E key \in build.keys \cap StructTags :
            ret.out.val = SQLUnder(build.tokenType, key)

\* C24, amended: the statement keeps its form, k column tokens and n equal
\* row groups of k placeholders, but each name is rendered with the value of
\* UseStructTag its own read saw: the old key, the new key, or the pointer
\* of one with the length of the other. Names of one statement can
\* therefore come from different keys.
C24_EachNameFromItsOwnRead ==
    Built("SQL") =>
        LET columns == ColumnsPart(ret.out.val)
            params == ParamsPart(ret.out.val)
        IN  /\ ret.out.val = "INSERT INTO " \o ins.Table \o " " \o columns
                                 \o " VALUES " \o params
            /\ TokensFrom(columns, ColumnNameTokenType, build.keys)
            /\ TokensFrom(FirstRow(params), build.tokenType, build.keys)
            /\ params = Join(Copies(FirstRow(params), NumRecs), ",")

C24_Witness ==
    /\ Built("SQL")
    /\ build.tokenType = ColonTokenType
    /\ {"col", "db"} \subseteq build.keys
    /\ FieldCount = 3
    /\ \A key \in StructTags : ret.out.val # SQLUnder(ColonTokenType, key)
    /\ ColumnsPart(ret.out.val) = "(a,,c_db)"

====
